---- MODULE Spec2Model ----
(***************************************************************************)
(* Model of oic.utils.rp: the relying-party Client (create_authn_request,  *)
(* callback) and the multi-issuer registry OIDCClients (create_client,     *)
(* dynamic_client, __getitem__, get_path).                                 *)
(*                                                                         *)
(* Strings that the code concatenates or compares (issuers, subjects,      *)
(* paths) are sequences of one-character strings, so that formatting is    *)
(* concatenation and not the identity.  What the protocol library and the  *)
(* OP answer (parsed responses, token responses, userinfo, discovery,      *)
(* provider configuration, registration) are inputs of the actions.        *)
(***************************************************************************)
EXTENDS Naturals, Sequences, FiniteSets, TLC

\* ------------------------------------------------------------------ bounds
\* Number of callback invocations explored on one Client.
MaxCallbacks == 1
\* Number of registrations the providers accept in one behaviour.
MaxRegistrations == 2
\* Number of callers of the registry's __getitem__.
NumCallers == 2

\* ------------------------------------------------------------------ values
\* Issuer and subject strings; one of each contains the separator ":".
Issuers == { <<"a">>, <<"a", ":", "b">> }
Subs == { <<"b">>, <<"b", ":", "b">> }
\* Values rndstr() can return for a state and for a nonce.
States == { "s1", "s2" }
Nonces == { "n1", "n2" }
Unset == "unset"
Algs == { "RS256", "none" }
\* behaviour["response_type"]: "code", "id_token" and the hybrid
\* "code id_token", as the sequence of their space-separated words.
ResponseTypes == { <<"code">>, <<"id_token">>, <<"code", "id_token">> }
SessionIds == { "A", "B" }

\* An ID token as the library exposes it: iss, sub, nonce and the alg of its
\* JWS header.  NoToken stands for None / a missing 'id_token' key.
Tokens == [iss : Issuers, sub : Subs, nonce : Nonces, alg : Algs]
NoToken == [iss |-> <<>>, sub |-> <<>>, nonce |-> Unset, alg |-> "absent"]
MaybeTokens == Tokens \cup {NoToken}

\* parse_response: an ErrorResponse, or an AuthorizationResponse carrying a
\* state, possibly an id_token and possibly a code.
ErrorResponses ==
  [kind : {"error"}, error : {"login_required", "access_denied"},
   state : {Unset}, id_token : {NoToken}, code : {FALSE}]
AuthorizationResponses ==
  [kind : {"auth"}, error : {""}, state : States, id_token : MaybeTokens,
   code : BOOLEAN]
Responses == ErrorResponses \cup AuthorizationResponses

\* do_access_token_request: raises, answers an ErrorResponse, or answers an
\* AccessTokenResponse with or without an id_token.  "notcalled" is the
\* placeholder when the request is not made.
ATNotCalled == [kind |-> "notcalled", id_token |-> NoToken]
ATResponses ==
  [kind : {"exception", "error"}, id_token : {NoToken}]
    \cup [kind : {"ok"}, id_token : MaybeTokens]

\* do_user_info_request: an ErrorResponse or the userinfo claims (its sub).
InfoNotCalled == [kind |-> "notcalled", sub |-> <<>>]
InfoResponses ==
  [kind : {"error"}, sub : {<<>>}] \cup [kind : {"ok"}, sub : Subs]

\* ------------------------------------------------------------------ registry values
\* The keys create_client dispatches on, and the ones it passes through.
StrategyKeys ==
  {"client_info", "srv_discovery_url", "provider_info", "client_registration"}
PassThroughKeys == {"verify_ssl", "userinfo_request_method", "behaviour", "allow"}
ConfigKeys == StrategyKeys \cup PassThroughKeys

\* A redirect URI, as urlsplit sees it: what precedes the path, and the path.
Uri(base, p) == [base |-> base, path |-> p]
BaseUrl == "rp"
RedirectLists ==
  { <<Uri(BaseUrl, <<"/", "c">>)>>,
    <<Uri(BaseUrl, <<"/", "c">>), Uri(BaseUrl, <<"/", "d">>)>> }

\* Values of srv_discovery_url: an issuer, and the well-known location of the
\* same provider.
DiscoveryUrls == { <<"a">>, <<"a", "/", "w">> }

\* The provider that answers at a location: its metadata names the issuer.
ProviderOf(url) == IF url \in Issuers THEN url ELSE <<"a">>

\* User identifiers and the issuer webfinger discovery finds for them; an
\* issuer given as the identifier is its own issuer, anything else is
\* unknown to webfinger.
UserIds == { <<"u", "1">>, <<"u", "2">> }
IssuerOf(userid) ==
  CASE userid = <<"u", "1">> -> <<"a">>
    [] userid = <<"u", "2">> -> <<"a", ":", "b">>
    [] userid \in Issuers -> userid
    [] OTHER -> <<>>

\* A client as the registry holds it.
NoClient == [issuer |-> <<>>, client_id |-> 0, redirect_uris |-> <<>>]

\* Keyword arguments of create_client: the keys present and, for the keys
\* present, their values.
NoRegistration == [client_id |-> 0, redirect_uris |-> <<>>]
SuppliedRegistrations ==
  {[client_id |-> 9, redirect_uris |-> <<Uri(BaseUrl, <<"/", "c">>)>>]}
Configs ==
  UNION {
    [keys : {ks},
     client_info :
       IF "client_info" \in ks THEN RedirectLists ELSE {<<>>},
     srv_discovery_url :
       IF "srv_discovery_url" \in ks THEN DiscoveryUrls ELSE {<<>>},
     provider_info :
       IF "provider_info" \in ks THEN Issuers ELSE {<<>>},
     client_registration :
       IF "client_registration" \in ks THEN SuppliedRegistrations
       ELSE {NoRegistration}]
    : ks \in SUBSET ConfigKeys }

\* What the network does to the three requests of provisioning.
NetAnswers == [wf : {"ok", "fail"}, pc : {"ok", "fail"}, reg : {"ok", "fail"}]

\* ------------------------------------------------------------------ state
VARIABLES
  rp,        \* the Client handling callbacks: provider_info issuer, behaviour
             \* response_type, allow_sign_alg_none, userinfo_request_method
             \* and the id_token cache (state -> ID token)
  session,   \* the callers' session dicts: session id -> [state, nonce]
  last,      \* what the last callback invocation was given and returned
  ncallbacks, \* number of callback invocations on this Client so far
  verified,  \* the verified results callers have received from callback:
             \* the issuer and subject of the ID token, and the user_id
  client,    \* OIDCClients.client: registry key -> Client
  path,      \* OIDCClients.path: redirect path -> issuer
  opregs,    \* registration requests each provider has received (by issuer)
  lastc,     \* what the last create_client call was given and returned
  cfg,       \* the configuration module, the seed and the base url
  todo,      \* keys of config.CLIENTS that __init__ has still to create
  built,     \* "constructing", "ready", or "failed" when __init__ raised
  pc,        \* where each caller of __getitem__ is
  loc        \* each caller's item, discovered issuer and result

cbvars == <<rp, session, last, ncallbacks, verified>>
dynvars == <<cfg, todo, built, pc, loc>>
regvars == <<client, path, opregs, lastc, cfg, todo, built, pc, loc>>
vars == <<rp, session, last, ncallbacks, verified, client, path, opregs, lastc,
          cfg, todo, built, pc, loc>>

\* ------------------------------------------------------------------ Client
\* Client.__init__: allow_sign_alg_none is False and userinfo_request_method
\* is '' until the owner of the Client assigns them; the id_token cache is
\* empty.
NewClient(issuer, response_type) ==
  [issuer |-> issuer,
   response_type |-> response_type,
   allow_sign_alg_none |-> FALSE,
   userinfo_request_method |-> "",
   id_token |-> [s \in States |-> NoToken]]

\* create_authn_request: fresh state and nonce are written into the session
\* and copied into the request arguments; acr_values is added when given and
\* the caller's keyword arguments are merged last (they win).
NoArgs == [k \in {} |-> ""]
create_authn_requestNoSession(c, st, no, acr_value, kwargs) ==
  [session |-> [state |-> Unset, nonce |-> Unset],
   request_args |-> [k \in {"response_type"} |-> c.response_type]]
create_authn_request(c, st, no, acr_value, kwargs) ==
  LET sess == [state |-> st, nonce |-> no]
      base == [k \in {"response_type", "state", "nonce"} |->
                 CASE k = "response_type" -> c.response_type
                   [] k = "state" -> sess.state
                   [] k = "nonce" -> sess.nonce]
      withacr == IF acr_value # "" THEN [k \in {"acr_values"} |-> acr_value] @@ base
                 ELSE base
  IN [session |-> sess, request_args |-> kwargs @@ withacr]

\* line 79: the OP asks for the login to be started again.
IsLoginRequiredBroken(response) == FALSE
IsLoginRequired(response) == response.error = "login_required"

\* line 84: the response belongs to this session.
StateMatchesBroken(sess, response) == TRUE
StateMatches(sess, response) == sess.state = response.state

\* lines 92 and 135: the ID token carries the session's nonce.
NonceMatchesBroken(tok, sess) == TRUE
NonceMatches(tok, sess) == tok.nonce = sess.nonce

\* line 132: the ID token was issued by the Client's provider.
IssuerMatchesBroken(c, tok) == TRUE
IssuerMatches(c, tok) == tok.iss = c.issuer

\* lines 138-140: unsigned ID tokens pass only when the Client allows them.
AlgAcceptedBroken(c, tok) == TRUE
AlgAccepted(c, tok) == c.allow_sign_alg_none \/ tok.alg # "none"

\* line 100: the code is exchanged at the token endpoint.
ExchangesCode(c) == c.response_type = <<"code">>

\* line 142: '{}:{}'.format(iss, sub)
UserIdSubOnly(tok) == tok.sub
UserIdBroken(tok) == tok.sub \o <<":">> \o tok.iss
UserId(tok) == tok.iss \o <<":">> \o tok.sub

\* line 156: userinfo describes the subject of the ID token.
SubjectMatches(tok, userinfo) == tok.sub = userinfo.sub

\* lines 75-98 of callback: parse, OP error, state check, front-channel ID
\* token.  outcome "continue" means the next stage runs.
FrontStage(c, response, sess, fresh) ==
  IF response.kind = "error"
  THEN IF IsLoginRequired(response)
       THEN [outcome |-> "Restart", cache |-> c.id_token, token |-> NoToken,
             session |-> create_authn_request(c, fresh.state, fresh.nonce, "", NoArgs).session]
       ELSE [outcome |-> "AccessDenied", cache |-> c.id_token, token |-> NoToken,
             session |-> sess]
  ELSE IF sess.state = Unset
  THEN [outcome |-> "KeyError:state", cache |-> c.id_token, token |-> NoToken,
        session |-> sess]
  ELSE IF ~StateMatches(sess, response)
  THEN [outcome |-> "StateMismatch", cache |-> c.id_token, token |-> NoToken,
        session |-> sess]
  ELSE IF response.id_token = NoToken
  THEN [outcome |-> "continue", cache |-> c.id_token, token |-> NoToken,
        session |-> sess]
  ELSE IF ~NonceMatches(response.id_token, sess)
  THEN [outcome |-> "NonceMismatchFront", cache |-> c.id_token, token |-> NoToken,
        session |-> sess]
  ELSE [outcome |-> "continue",
        cache |-> [c.id_token EXCEPT ![response.state] = response.id_token],
        token |-> response.id_token, session |-> sess]

\* lines 100-127 of callback: the code exchange.  front is FrontStage's
\* result; calls lists the requests made to the OP.
ExchangeStage(c, response, front, atresp) ==
  IF ~ExchangesCode(c)
  THEN [outcome |-> "continue", cache |-> front.cache, token |-> front.token,
        calls |-> <<>>]
  ELSE IF ~response.code
  THEN [outcome |-> "KeyError:code", cache |-> front.cache, token |-> front.token,
        calls |-> <<>>]
  ELSE IF atresp.kind = "exception"
  THEN [outcome |-> "TokenRequestFailed", cache |-> front.cache,
        token |-> front.token, calls |-> <<"token">>]
  ELSE IF atresp.kind = "error"
  THEN [outcome |-> "TokenError", cache |-> front.cache, token |-> front.token,
        calls |-> <<"token">>]
  ELSE IF atresp.id_token = NoToken
  THEN [outcome |-> "KeyError:id_token", cache |-> front.cache, token |-> front.token,
        calls |-> <<"token">>]
  ELSE [outcome |-> "continue",
        cache |-> [front.cache EXCEPT ![response.state] = atresp.id_token],
        token |-> atresp.id_token, calls |-> <<"token">>]

\* lines 129-161 of callback: the checks on the final ID token, the userinfo
\* request and the subject check.
VerifyStage(c, response, sess, tok, inforesp) ==
  IF tok = NoToken
  THEN [outcome |-> "NoIdToken", calls |-> <<>>, user_id |-> <<>>, userinfo |-> <<>>]
  ELSE IF ~IssuerMatches(c, tok)
  THEN [outcome |-> "IssuerMismatch", calls |-> <<>>, user_id |-> <<>>, userinfo |-> <<>>]
  ELSE IF ~NonceMatches(tok, sess)
  THEN [outcome |-> "NonceMismatch", calls |-> <<>>, user_id |-> <<>>, userinfo |-> <<>>]
  ELSE IF ~AlgAccepted(c, tok)
  THEN [outcome |-> "AlgNoneRejected", calls |-> <<>>, user_id |-> <<>>, userinfo |-> <<>>]
  ELSE IF inforesp.kind = "error"
  THEN [outcome |-> "UserinfoError", calls |-> <<"userinfo">>, user_id |-> <<>>,
        userinfo |-> <<>>]
  ELSE IF ~SubjectMatches(tok, inforesp)
  THEN [outcome |-> "SubjectMismatch", calls |-> <<"userinfo">>, user_id |-> <<>>,
        userinfo |-> <<>>]
  ELSE [outcome |-> "Success", calls |-> <<"userinfo">>, user_id |-> UserId(tok),
        userinfo |-> inforesp.sub]

\* Client.callback as a whole: what it returns or raises, the id_token cache
\* and the session after it, the requests it made and the ID token it
\* checked.
callback(c, response, sess, atresp, inforesp, fresh) ==
  LET front == FrontStage(c, response, sess, fresh)
      exch == ExchangeStage(c, response, front, atresp)
      ver == VerifyStage(c, response, sess, exch.token, inforesp)
  IN IF front.outcome # "continue"
     THEN [outcome |-> front.outcome, cache |-> front.cache,
           session |-> front.session, calls |-> <<>>, token |-> NoToken,
           user_id |-> <<>>, userinfo |-> <<>>]
     ELSE IF exch.outcome # "continue"
     THEN [outcome |-> exch.outcome, cache |-> exch.cache, session |-> sess,
           calls |-> exch.calls, token |-> NoToken,
           user_id |-> <<>>, userinfo |-> <<>>]
     ELSE [outcome |-> ver.outcome, cache |-> exch.cache, session |-> sess,
           calls |-> exch.calls \o ver.calls, token |-> exch.token,
           user_id |-> ver.user_id, userinfo |-> ver.userinfo]

\* The answers of the OP that a callback can consume: a token response only
\* when the token request is made, userinfo only when it is requested.
TokenAnswers(c, response, sess) ==
  IF "token" \in
       {callback(c, response, sess, [kind |-> "exception", id_token |-> NoToken],
                 InfoNotCalled, sess).calls[i] : i \in
          1..Len(callback(c, response, sess, [kind |-> "exception", id_token |-> NoToken],
                          InfoNotCalled, sess).calls)}
  THEN ATResponses ELSE {ATNotCalled}
InfoAnswers(c, response, sess, atresp) ==
  IF callback(c, response, sess, atresp, [kind |-> "error", sub |-> <<>>], sess).outcome
       = "UserinfoError"
  THEN InfoResponses ELSE {InfoNotCalled}
FreshValues(response) ==
  IF response.kind = "error" /\ response.error = "login_required"
  THEN [state : States, nonce : Nonces] ELSE {[state |-> Unset, nonce |-> Unset]}

\* ------------------------------------------------------------------ OIDCClients
Range(seq) == {seq[i] : i \in 1..Len(seq)}

\* Lookup in a dict: the value, or the marker for a missing key.
Get(dict, key, missing) == IF key \in DOMAIN dict THEN dict[key] ELSE missing

\* get_path: every redirect URI's path, without its leading "/", is mapped
\* to issuer; an entry already there is overwritten.
get_path(curpath, redirect_uris, issuer) ==
  LET new == {Tail(redirect_uris[i].path) : i \in 1..Len(redirect_uris)}
  IN [p \in DOMAIN curpath \cup new |-> IF p \in new THEN issuer ELSE curpath[p]]

\* lines 201-230: the key set left after the pass-through keys are discarded.
KeySet(kwargs) == kwargs.keys \ PassThroughKeys

\* lines 232-279: the branch the key set selects.
Strategy(key_set) ==
  CASE key_set = {"client_info"} -> "dynamic"
    [] key_set = {"client_info", "srv_discovery_url"} -> "discovery+register"
    [] key_set = {"provider_info", "client_info"} -> "provider+register"
    [] key_set = {"provider_info", "client_registration"} -> "provider+registration"
    [] key_set = {"srv_discovery_url", "client_registration"} -> "discovery+registration"
    [] OTHER -> "none"

\* A provider receives one more registration request.
CountRegistration(regs, provider) ==
  IF provider = <<>> THEN regs ELSE [regs EXCEPT ![provider] = @ + 1]

\* The client id a provider hands out at the next registration.
NextClientId == 1 + opregs[<<"a">>] + opregs[<<"a", ":", "b">>]

\* create_client(userid, **kwargs): what it returns or raises, the path index
\* after it, the requests it made, and the provider it registered with.
create_client(userid, kwargs, net, curpath, client_id) ==
  LET strategy == Strategy(KeySet(kwargs))
      Raise(exc, calls) ==
        [outcome |-> exc, client |-> NoClient, path |-> curpath,
         calls |-> calls, registered |-> <<>>]
      Registered(provider, recorded, calls) ==
        [outcome |-> "Client",
         client |-> [issuer |-> provider, client_id |-> client_id,
                     redirect_uris |-> kwargs.client_info],
         path |-> get_path(curpath, kwargs.client_info, recorded),
         calls |-> calls, registered |-> provider]
  IN IF "behaviour" \notin kwargs.keys
     THEN Raise("KeyError:behaviour", <<>>)
     ELSE IF "verify_ssl" \in kwargs.keys
     THEN Raise("TypeError:verify_ssl", <<>>)
     ELSE CASE strategy = "dynamic" ->
                 IF userid = <<>>
                 THEN Raise("MissingAttribute", <<>>)
                 ELSE IF net.wf = "fail" \/ IssuerOf(userid) = <<>>
                 THEN Raise("DiscoveryFailed", <<"webfinger">>)
                 ELSE IF net.pc = "fail"
                 THEN Raise("ProviderConfigFailed", <<"webfinger", "provider_config">>)
                 ELSE IF net.reg = "fail"
                 THEN [Raise("RegistrationFailed",
                             <<"webfinger", "provider_config", "register">>)
                         EXCEPT !.registered = ProviderOf(IssuerOf(userid))]
                 ELSE Registered(ProviderOf(IssuerOf(userid)), IssuerOf(userid),
                                 <<"webfinger", "provider_config", "register">>)
            [] strategy = "discovery+register" ->
                 IF net.pc = "fail"
                 THEN Raise("ProviderConfigFailed", <<"provider_config">>)
                 ELSE IF net.reg = "fail"
                 THEN [Raise("RegistrationFailed", <<"provider_config", "register">>)
                         EXCEPT !.registered = ProviderOf(kwargs.srv_discovery_url)]
                 ELSE Registered(ProviderOf(kwargs.srv_discovery_url),
                                 kwargs.srv_discovery_url,
                                 <<"provider_config", "register">>)
            [] strategy = "provider+register" ->
                 IF net.reg = "fail"
                 THEN [Raise("RegistrationFailed", <<"register">>)
                         EXCEPT !.registered = kwargs.provider_info]
                 ELSE Registered(kwargs.provider_info, kwargs.provider_info,
                                 <<"register">>)
            [] strategy = "provider+registration" ->
                 Raise("KeyError:client_info", <<>>)
            [] strategy = "discovery+registration" ->
                 IF net.pc = "fail"
                 THEN Raise("ProviderConfigFailed", <<"provider_config">>)
                 ELSE Raise("KeyError:client_info", <<"provider_config">>)
            [] OTHER -> Raise("ConfigurationError", <<>>)

\* The requests a create_client call can consume answers for.
NetAnswersFor(userid, kwargs) ==
  {net \in NetAnswers :
     LET calls == create_client(userid, kwargs, [wf |-> "ok", pc |-> "ok", reg |-> "ok"],
                                << >>, 0).calls
     IN /\ "webfinger" \notin Range(calls) => net.wf = "ok"
        /\ "provider_config" \notin Range(calls) => net.pc = "ok"
        /\ "register" \notin Range(calls) => net.reg = "ok"}

\* ------------------------------------------------------------------ actions
\* The record of a handler invocation before any handler has run, and after
\* its caller has taken the result.
NoCall ==
  [op |-> "none", sid |-> "A", session |-> [state |-> Unset, nonce |-> Unset],
   response |-> [kind |-> "none", error |-> "", state |-> Unset,
                 id_token |-> NoToken, code |-> FALSE],
   atresp |-> ATNotCalled, inforesp |-> InfoNotCalled,
   outcome |-> "none", calls |-> <<>>, token |-> NoToken,
   user_id |-> <<>>, userinfo |-> <<>>,
   cache_before |-> [s \in States |-> NoToken],
   fresh |-> [state |-> Unset, nonce |-> Unset],
   request_args |-> NoArgs]

\* Keyword arguments a caller may pass to create_authn_request.
ExtraArgs ==
  {NoArgs, [k \in {"state"} |-> "s2"], [k \in {"nonce"} |-> "n2"]}
AcrValues == {"", "acr"}

\* The issuer of the provider the Client of this specification is set up for.
RpIssuer == <<"a">>

\* A provisioned Client (provider_info and behaviour set) with its defaults,
\* and sessions in which no request has been built yet.
InitClient(response_types) ==
  /\ rp \in {NewClient(RpIssuer, rt) : rt \in response_types}
  /\ session = [s \in SessionIds |-> [state |-> Unset, nonce |-> Unset]]
  /\ last = NoCall
  /\ ncallbacks = 0
  /\ verified = {}

\* OIDCClients.__init__, lines 171-177: an empty registry and path index;
\* no provider has been asked for a registration.
NoCreate ==
  [op |-> "none", userid |-> <<>>,
   kwargs |-> [keys |-> {}, client_info |-> <<>>, srv_discovery_url |-> <<>>,
               provider_info |-> <<>>, client_registration |-> NoRegistration],
   net |-> [wf |-> "ok", pc |-> "ok", reg |-> "ok"],
   outcome |-> "none", calls |-> <<>>, client |-> NoClient, path_before |-> << >>]
Callers == 1..NumCallers
Idle ==
  [item |-> <<>>, issuer |-> <<>>, client_id |-> 0, outcome |-> "none",
   result |-> NoClient]

\* The default ("") profile: the redirect URI templates of its client_info;
\* "{iss}" is the placeholder of the per-issuer tag.
DefaultTemplates == << Uri("{base}", <<"/", "{iss}">>) >>

\* Static profiles of config.CLIENTS: provider metadata (issuer "a") plus
\* registration request, and discovery URL (of issuer "a:b") plus
\* registration request.
StaticProfiles ==
  { [keys |-> {"behaviour", "provider_info", "client_info"},
     client_info |-> <<Uri(BaseUrl, <<"/", "c">>)>>, srv_discovery_url |-> <<>>,
     provider_info |-> <<"a">>, client_registration |-> NoRegistration],
    [keys |-> {"behaviour", "client_info", "srv_discovery_url"},
     client_info |-> <<Uri(BaseUrl, <<"/", "d">>)>>,
     srv_discovery_url |-> <<"a", ":", "b">>,
     provider_info |-> <<>>, client_registration |-> NoRegistration] }

\* Keys of config.CLIENTS other than "": a name, and an issuer.
StaticKeys == { <<"g">>, <<"a">> }
Seeds == { <<"k">> }
\* The configurations: each static key has a profile of its own provider,
\* and a key that is an issuer has the profile of that issuer.
ProfileIssuer(profile) ==
  IF "provider_info" \in profile.keys THEN profile.provider_info
  ELSE ProviderOf(profile.srv_discovery_url)
StaticClients ==
  UNION { {m \in [keys -> StaticProfiles] :
             /\ \A k1 \in keys : \A k2 \in keys : m[k1] = m[k2] => k1 = k2
             /\ \A k \in keys \cap Issuers : ProfileIssuer(m[k]) = k}
          : keys \in SUBSET StaticKeys }
RegistryConfigs ==
  [CLIENTS : StaticClients, templates : {DefaultTemplates},
   seed : Seeds, base_url : {BaseUrl}]
EmptyConfig ==
  [CLIENTS |-> << >>, templates |-> DefaultTemplates, seed |-> <<"k">>,
   base_url |-> BaseUrl]

InitRegistry ==
  /\ client = << >>
  /\ path = << >>
  /\ opregs = [i \in Issuers |-> 0]
  /\ lastc = NoCreate
  /\ cfg = EmptyConfig
  /\ todo = {}
  /\ built = "ready"
  /\ pc = [t \in Callers |-> "idle"]
  /\ loc = [t \in Callers |-> Idle]

Init == InitClient(ResponseTypes) /\ InitRegistry

\* The owner of the Client opts in to unsigned ID tokens (attribute of line 33).
AllowSignAlgNone ==
  /\ last.op = "none"
  /\ ~rp.allow_sign_alg_none
  /\ rp' = [rp EXCEPT !.allow_sign_alg_none = TRUE]
  /\ UNCHANGED <<session, last, ncallbacks, verified>>
  /\ UNCHANGED regvars

\* create_authn_request(session, acr_value, **kwargs) for one of the sessions.
CreateAuthnRequest(sid) ==
  /\ last.op = "none"
  /\ \E st \in States, no \in Nonces, acr \in AcrValues, kwargs \in ExtraArgs :
       LET r == create_authn_request(rp, st, no, acr, kwargs)
       IN /\ session' = [session EXCEPT ![sid] = r.session]
          /\ last' = [NoCall EXCEPT !.op = "create_authn_request", !.sid = sid,
                                    !.session = session[sid],
                                    !.request_args = r.request_args]
  /\ UNCHANGED <<rp, ncallbacks, verified>>
  /\ UNCHANGED regvars

\* callback(response, session) for one of the sessions.
Callback(sid) ==
  /\ last.op = "none"
  /\ ncallbacks < MaxCallbacks
  /\ \E response \in Responses :
     \E atresp \in TokenAnswers(rp, response, session[sid]) :
     \E inforesp \in InfoAnswers(rp, response, session[sid], atresp) :
     \E fresh \in FreshValues(response) :
       LET r == callback(rp, response, session[sid], atresp, inforesp, fresh)
       IN /\ rp' = [rp EXCEPT !.id_token = r.cache]
          /\ session' = [session EXCEPT ![sid] = r.session]
          /\ last' = [NoCall EXCEPT !.op = "callback", !.sid = sid,
                        !.session = session[sid], !.response = response,
                        !.atresp = atresp, !.inforesp = inforesp,
                        !.outcome = r.outcome, !.calls = r.calls,
                        !.token = r.token, !.user_id = r.user_id,
                        !.userinfo = r.userinfo, !.cache_before = rp.id_token,
                        !.fresh = fresh]
          /\ ncallbacks' = ncallbacks + 1
  /\ UNCHANGED verified
  /\ UNCHANGED regvars

\* The caller takes the handler's result (a return value or an exception);
\* a verified (user_id, claims) pair is what it logs the user in with.
Return ==
  /\ last.op # "none"
  /\ last' = NoCall
  /\ verified' =
       IF last.op = "callback" /\ last.outcome = "Success"
       THEN verified \cup {[iss |-> last.token.iss, sub |-> last.token.sub,
                            user_id |-> last.user_id]}
       ELSE verified
  /\ UNCHANGED <<rp, session, ncallbacks>>
  /\ UNCHANGED regvars

\* The next callback is for another issuer: the caller takes that issuer's
\* Client from the registry, a Client no callback has used yet.
Dispatch(issuer) ==
  /\ last.op = "none"
  /\ issuer # rp.issuer
  /\ verified # {}
  /\ \A r \in verified : r.iss # issuer
  /\ rp' = NewClient(issuer, rp.response_type)
  /\ ncallbacks' = 0
  /\ UNCHANGED <<session, last, verified>>
  /\ UNCHANGED regvars

\* ------------------------------------------------------------------ claims
IsCallback == last.op = "callback"

\* C1: with two sessions in flight on the Client whose state values differ,
\* a callback on one session with an authorization response carrying the
\* other session's state ends in the state-mismatch failure: no verified
\* (user_id, claims), no request to the OP, whatever else the response holds.
C1_StateBinding ==
  \A a \in SessionIds : \A b \in SessionIds \ {a} :
    (/\ IsCallback /\ last.sid = a
     /\ last.session.state \in States /\ session[b].state \in States
     /\ session[b].state # last.session.state
     /\ last.response.kind = "auth"
     /\ last.response.state = session[b].state)
    => (/\ last.outcome = "StateMismatch"
        /\ last.user_id = <<>> /\ last.userinfo = <<>>
        /\ last.calls = <<>>)

\* C1 witness: session B's response, complete with a code and an ID token
\* that is valid for B, was handed to callback with session A.
C1_Witness ==
  /\ IsCallback /\ last.sid = "A"
  /\ last.session.state \in States /\ session["B"].state \in States
  /\ session["B"].state # last.session.state
  /\ last.response.kind = "auth"
  /\ last.response.state = session["B"].state
  /\ last.response.code
  /\ last.response.id_token \in Tokens
  /\ last.response.id_token.iss = rp.issuer
  /\ last.response.id_token.nonce = session["B"].nonce
  /\ last.outcome = "StateMismatch"

\* C2: a callback that returns a verified result checked an ID token whose
\* nonce is the session's nonce; a front-channel ID token with another nonce
\* ends in the first nonce failure, and an exchanged ID token with another
\* nonce is never accepted, also when the front-channel one had the right
\* nonce.
C2_NonceConsistency ==
  IsCallback =>
    /\ last.outcome = "Success" =>
         /\ last.token \in Tokens
         /\ last.session.nonce \in Nonces
         /\ last.token.nonce = last.session.nonce
    /\ (/\ last.response.kind = "auth"
        /\ last.session.state = last.response.state
        /\ last.response.id_token \in Tokens
        /\ last.response.id_token.nonce # last.session.nonce)
       => last.outcome = "NonceMismatchFront"
    /\ (/\ last.atresp.kind = "ok"
        /\ last.atresp.id_token \in Tokens
        /\ last.atresp.id_token.nonce # last.session.nonce)
       => last.outcome \in {"NonceMismatch", "IssuerMismatch"}

\* C2 witness: code flow, the front-channel ID token has the session's
\* nonce, the exchanged one (right issuer) does not, and it is rejected.
C2_Witness ==
  /\ IsCallback
  /\ last.response.id_token \in Tokens
  /\ last.response.id_token.nonce = last.session.nonce
  /\ last.atresp.kind = "ok"
  /\ last.atresp.id_token \in Tokens
  /\ last.atresp.id_token.iss = rp.issuer
  /\ last.atresp.id_token.nonce # last.session.nonce
  /\ last.outcome = "NonceMismatch"

\* The final ID token of the last callback passed every check before the
\* algorithm gate and is unsigned.
UnsignedAtGate ==
  /\ IsCallback
  /\ last.token \in Tokens
  /\ last.token.iss = rp.issuer
  /\ last.token.nonce = last.session.nonce
  /\ last.token.alg = "none"

\* C3: an unsigned ID token that passes every other check is accepted exactly
\* when allow_sign_alg_none is true (userinfo answering with the same sub);
\* with the default (false) it is rejected and userinfo is not requested.
C3_AlgorithmGate ==
  UnsignedAtGate =>
    /\ rp.allow_sign_alg_none =>
         /\ last.calls # <<>> /\ last.calls[Len(last.calls)] = "userinfo"
         /\ (last.inforesp.kind = "ok" /\ last.inforesp.sub = last.token.sub)
              => last.outcome = "Success"
    /\ ~rp.allow_sign_alg_none =>
         /\ last.outcome = "AlgNoneRejected"
         /\ "userinfo" \notin Range(last.calls)
         /\ last.user_id = <<>>

\* C3 witness: a Client that opted in accepted an unsigned ID token.
C3_Witness ==
  /\ UnsignedAtGate
  /\ rp.allow_sign_alg_none
  /\ last.outcome = "Success"

\* C4: a verified result has user_id = provider issuer ":" userinfo sub, the
\* ID token's iss being the provider issuer and its sub the userinfo sub; a
\* subject mismatch is reported with the userinfo request already made.
C4_VerifiedIdentity ==
  IsCallback =>
    /\ last.outcome = "Success" =>
         /\ last.user_id = rp.issuer \o <<":">> \o last.userinfo
         /\ last.token.iss = rp.issuer
         /\ last.token.sub = last.userinfo
         /\ last.inforesp.kind = "ok" /\ last.inforesp.sub = last.userinfo
    /\ last.outcome = "SubjectMismatch" =>
         /\ last.calls # <<>> /\ last.calls[Len(last.calls)] = "userinfo"
         /\ last.inforesp.kind = "ok" /\ last.inforesp.sub # last.token.sub

\* C4 witness: a verified result whose subject contains the separator.
C4_Witness ==
  /\ IsCallback
  /\ last.outcome = "Success"
  /\ last.userinfo = <<"b", ":", "b">>

\* The last callback got as far as the code-exchange step of line 100.
ReachedExchangeStep ==
  /\ IsCallback
  /\ last.response.kind = "auth"
  /\ last.outcome \notin {"KeyError:state", "StateMismatch", "NonceMismatchFront"}

\* C10 (as claimed): a callback that reaches the exchange step with a code
\* makes the token request exactly when the configured response type
\* includes "code", hybrid values included, and the exchanged ID token is
\* then the cached and checked one.
C10_ExchangeWhenCodeIncluded ==
  (ReachedExchangeStep /\ last.response.code) =>
    ("token" \in Range(last.calls)
       <=> \E i \in 1..Len(rp.response_type) : rp.response_type[i] = "code")

Next ==
  \/ AllowSignAlgNone
  \/ \E sid \in SessionIds : CreateAuthnRequest(sid)
  \/ \E sid \in SessionIds : Callback(sid)
  \/ Return

Spec == Init /\ [][Next]_vars

\* Callbacks of several issuers, each handled by its own Client (implicit
\* flow).
InitFederated == InitClient({<<"id_token">>}) /\ InitRegistry

NextFederated ==
  \/ \E sid \in SessionIds : CreateAuthnRequest(sid)
  \/ \E sid \in SessionIds : Callback(sid)
  \/ Return
  \/ \E issuer \in Issuers : Dispatch(issuer)

SpecFederated == InitFederated /\ [][NextFederated]_vars

\* ------------------------------------------------------------------ create_client
\* create_client(userid, **kwargs) called on the registry.
CreateClient ==
  /\ lastc.op = "none"
  /\ NextClientId <= MaxRegistrations
  /\ \E userid \in {<<>>, <<"u", "1">>}, kwargs \in Configs :
     \E net \in NetAnswersFor(userid, kwargs) :
       LET r == create_client(userid, kwargs, net, path, NextClientId)
       IN /\ path' = r.path
          /\ opregs' = CountRegistration(opregs, r.registered)
          /\ lastc' = [op |-> "create_client", userid |-> userid, kwargs |-> kwargs,
                       net |-> net, outcome |-> r.outcome, calls |-> r.calls,
                       client |-> r.client, path_before |-> path]
  /\ UNCHANGED <<client, cbvars, dynvars>>

\* The caller takes create_client's result.
ReturnCreate ==
  /\ lastc.op # "none"
  /\ lastc' = NoCreate
  /\ UNCHANGED <<client, path, opregs, cbvars, dynvars>>

NextCreate == CreateClient \/ ReturnCreate

InitCreate == InitClient({<<"code">>}) /\ InitRegistry

SpecCreate == InitCreate /\ [][NextCreate]_vars


\* ------------------------------------------------------------------ registry lookups
\* hashlib.sha256(...).hexdigest(): a tag that differs whenever the hashed
\* bytes differ.
HashConstant(bytes) == <<"#">>
Hash(bytes) == <<"#">> \o bytes

\* u.format(base=..., iss=...): the placeholders of a template replaced.
RECURSIVE FormatPath(_, _)
FormatPath(parts, iss) ==
  IF parts = <<>> THEN <<>>
  ELSE (IF Head(parts) = "{iss}" THEN iss ELSE <<Head(parts)>>)
         \o FormatPath(Tail(parts), iss)
Format(u, base, iss) ==
  Uri(IF u.base = "{base}" THEN base ELSE u.base, FormatPath(u.path, iss))

\* lines 294-302: the redirect URIs dynamic_client registers for an issuer.
DerivedRedirectUris(config, issuer) ==
  [i \in 1..Len(config.templates) |->
     Format(config.templates[i], config.base_url, Hash(config.seed \o issuer))]

\* What __getitem__ can be asked for.
Items == UserIds \cup StaticKeys

\* OIDCClients.__init__, lines 179-183: create the client of one key of
\* config.CLIENTS and store it under that key; an exception ends __init__.
Construct(key) ==
  /\ built = "constructing"
  /\ key \in todo
  /\ NextClientId <= MaxRegistrations
  /\ \E net \in NetAnswersFor(<<>>, cfg.CLIENTS[key]) :
       LET r == create_client(<<>>, cfg.CLIENTS[key], net, path, NextClientId)
       IN /\ path' = r.path
          /\ opregs' = CountRegistration(opregs, r.registered)
          /\ IF r.outcome = "Client"
             THEN /\ client' = [k \in DOMAIN client \cup {key} |->
                                  IF k = key THEN r.client ELSE client[k]]
                  /\ todo' = todo \ {key}
                  /\ built' = IF todo' = {} THEN "ready" ELSE "constructing"
             ELSE /\ client' = client
                  /\ todo' = todo
                  /\ built' = "failed"
  /\ UNCHANGED <<lastc, cfg, pc, loc, cbvars>>

\* __getitem__(item), lines 321-324, and the start of dynamic_client, lines
\* 284-287: a key of the registry is answered at once, anything else goes to
\* webfinger discovery.
GetItem(t, item) ==
  /\ built = "ready"
  /\ pc[t] = "idle"
  /\ IF item \in DOMAIN client
     THEN /\ pc' = [pc EXCEPT ![t] = "done"]
          /\ loc' = [loc EXCEPT ![t] = [Idle EXCEPT !.item = item,
                                                     !.outcome = "cached",
                                                     !.result = client[item]]]
     ELSE /\ pc' = [pc EXCEPT ![t] = "discovering"]
          /\ loc' = [loc EXCEPT ![t] = [Idle EXCEPT !.item = item]]
  /\ UNCHANGED <<client, path, opregs, lastc, cfg, todo, built, cbvars>>

\* A lookup that starts while no other lookup is in progress.
GetItemAlone(t, item) ==
  /\ \A u \in Callers : pc[u] \in {"idle", "done"}
  /\ GetItem(t, item)

\* lines 287-292: discovery answers (or fails); an issuer that is a key of
\* the registry is answered with its Client, for any other the provider
\* configuration is requested.
Discovered(t) ==
  /\ pc[t] = "discovering"
  /\ \E answer \in {"ok", "fail"} :
       LET issuer == IssuerOf(loc[t].item)
       IN IF answer = "fail" \/ issuer = <<>>
          THEN /\ pc' = [pc EXCEPT ![t] = "done"]
               /\ loc' = [loc EXCEPT ![t].outcome = "DiscoveryFailed"]
          ELSE IF issuer \in DOMAIN client
          THEN /\ pc' = [pc EXCEPT ![t] = "done"]
               /\ loc' = [loc EXCEPT ![t].issuer = issuer, ![t].outcome = "cached",
                                     ![t].result = client[issuer]]
          ELSE /\ pc' = [pc EXCEPT ![t] = "configuring"]
               /\ loc' = [loc EXCEPT ![t].issuer = issuer]
  /\ UNCHANGED <<client, path, opregs, lastc, cfg, todo, built, cbvars>>

\* lines 292-305: the provider configuration answers (or fails); the redirect
\* URIs are derived and recorded in the path index, and the registration
\* request is sent.
Configured(t) ==
  /\ pc[t] = "configuring"
  /\ \E answer \in {"ok", "fail"} :
       IF answer = "fail"
       THEN /\ pc' = [pc EXCEPT ![t] = "done"]
            /\ loc' = [loc EXCEPT ![t].outcome = "ProviderConfigFailed"]
            /\ UNCHANGED <<path, opregs>>
       ELSE /\ NextClientId <= MaxRegistrations
            /\ pc' = [pc EXCEPT ![t] = "registering"]
            /\ path' = get_path(path, DerivedRedirectUris(cfg, loc[t].issuer),
                                loc[t].issuer)
            /\ opregs' = CountRegistration(opregs, ProviderOf(loc[t].issuer))
            /\ loc' = [loc EXCEPT ![t].client_id = NextClientId]
  /\ UNCHANGED <<client, lastc, cfg, todo, built, cbvars>>

\* lines 305-313: the registration answers (or fails); the new Client is
\* stored under the issuer and returned.
Registered(t) ==
  /\ pc[t] = "registering"
  /\ \E answer \in {"ok", "fail"} :
       IF answer = "fail"
       THEN /\ pc' = [pc EXCEPT ![t] = "done"]
            /\ loc' = [loc EXCEPT ![t].outcome = "RegistrationFailed"]
            /\ client' = client
       ELSE LET new == [issuer |-> ProviderOf(loc[t].issuer),
                        client_id |-> loc[t].client_id,
                        redirect_uris |-> DerivedRedirectUris(cfg, loc[t].issuer)]
            IN /\ pc' = [pc EXCEPT ![t] = "done"]
               /\ loc' = [loc EXCEPT ![t].outcome = "registered", ![t].result = new]
               /\ client' = [k \in DOMAIN client \cup {loc[t].issuer} |->
                               IF k = loc[t].issuer THEN new ELSE client[k]]
  /\ UNCHANGED <<path, opregs, lastc, cfg, todo, built, cbvars>>

\* The caller takes the Client (or the exception) and may ask again.
TakeResult(t) ==
  /\ pc[t] = "done"
  /\ pc' = [pc EXCEPT ![t] = "idle"]
  /\ loc' = [loc EXCEPT ![t] = Idle]
  /\ UNCHANGED <<client, path, opregs, lastc, cfg, todo, built, cbvars>>

\* A registry under construction from one of the configurations.
InitConfigured ==
  /\ InitClient({<<"code">>})
  /\ client = << >>
  /\ path = << >>
  /\ opregs = [i \in Issuers |-> 0]
  /\ lastc = NoCreate
  /\ cfg \in RegistryConfigs
  /\ todo = DOMAIN cfg.CLIENTS
  /\ built = IF todo = {} THEN "ready" ELSE "constructing"
  /\ pc = [t \in Callers |-> "idle"]
  /\ loc = [t \in Callers |-> Idle]

\* Lookups one after the other.
NextRegistry ==
  \/ \E key \in StaticKeys : Construct(key)
  \/ \E t \in Callers, item \in Items : GetItemAlone(t, item)
  \/ \E t \in Callers : Discovered(t)
  \/ \E t \in Callers : Configured(t)
  \/ \E t \in Callers : Registered(t)
  \/ \E t \in Callers : TakeResult(t)

SpecRegistry == InitConfigured /\ [][NextRegistry]_vars

\* Lookups by concurrent callers.
NextConcurrent ==
  \/ \E key \in StaticKeys : Construct(key)
  \/ \E t \in Callers, item \in Items : GetItem(t, item)
  \/ \E t \in Callers : Discovered(t)
  \/ \E t \in Callers : Configured(t)
  \/ \E t \in Callers : Registered(t)
  \/ \E t \in Callers : TakeResult(t)

SpecConcurrent == InitConfigured /\ [][NextConcurrent]_vars

\* ------------------------------------------------------------------ claims on the registry

\* The callers whose lookup ended with a Client.
Served == {t \in Callers : pc[t] = "done" /\ loc[t].outcome \in {"registered", "cached"}}

\* C5 (as claimed): callers that resolve identifiers of the same unseen
\* issuer concurrently all receive the same Client (same client_id), and no
\* two of them have each registered with the provider.
C5_SingleFlight ==
  \A t \in Served : \A u \in Served \ {t} :
    (loc[t].issuer # <<>> /\ loc[t].issuer = loc[u].issuer) =>
      /\ loc[t].result.client_id = loc[u].result.client_id
      /\ ~(loc[t].outcome = "registered" /\ loc[u].outcome = "registered")

\* C6 (as claimed): after construction and any series of lookups, one after
\* the other, no two registry entries are Clients of the same issuer, and a
\* lookup whose discovered issuer already has a Client does not register
\* another one.
C6_OneClientPerIssuer ==
  built = "ready" =>
    /\ \A k1 \in DOMAIN client : \A k2 \in DOMAIN client :
         client[k1].issuer = client[k2].issuer => k1 = k2
    /\ \A t \in Served :
         loc[t].outcome = "registered" =>
           ~\E k \in DOMAIN client \ {loc[t].issuer} :
               client[k].issuer = loc[t].result.issuer

\* C7 (as claimed): after a successful create_client the path of every
\* registered redirect URI maps to the issuer named by the provider metadata
\* of the Client.
C7_PathsMapToResolvedIssuer ==
  (lastc.op = "create_client" /\ lastc.outcome = "Client") =>
    \A i \in 1..Len(lastc.client.redirect_uris) :
      Get(path, Tail(lastc.client.redirect_uris[i].path), <<>>) = lastc.client.issuer

\* C8 (as claimed): with the key set {provider_info, client_registration} or
\* {srv_discovery_url, client_registration} (behaviour given, the provider
\* configuration fetched) create_client returns a Client carrying the
\* supplied registration, makes no registration request and records the
\* redirect URIs in the path index.
C8_StaticRegistrationCompletes ==
  (/\ lastc.op = "create_client"
   /\ Strategy(KeySet(lastc.kwargs)) \in
        {"provider+registration", "discovery+registration"}
   /\ "behaviour" \in lastc.kwargs.keys /\ "verify_ssl" \notin lastc.kwargs.keys
   /\ lastc.net.pc = "ok")
  => /\ lastc.outcome = "Client"
     /\ "register" \notin Range(lastc.calls)
     /\ lastc.client.client_id = lastc.kwargs.client_registration.client_id
     /\ \A i \in 1..Len(lastc.kwargs.client_registration.redirect_uris) :
          Tail(lastc.kwargs.client_registration.redirect_uris[i].path) \in DOMAIN path

\* C9 (as claimed): the key set left after removing the pass-through keys
\* alone decides what create_client does: one of the five strategies runs
\* when it is one of the five sets, and any other set ends in the
\* configuration error with no request made and the path index unchanged.
\* Stated for the calls that pass a behaviour, which line 212 reads.
C9_ExactKeySetDispatch ==
  (lastc.op = "create_client" /\ "behaviour" \in lastc.kwargs.keys) =>
    IF Strategy(KeySet(lastc.kwargs)) = "none"
    THEN /\ lastc.outcome = "ConfigurationError"
         /\ lastc.calls = <<>>
         /\ path = lastc.path_before
    ELSE lastc.outcome \notin
           {"ConfigurationError", "KeyError:behaviour", "TypeError:verify_ssl"}

\* ------------------------------------------------------------------ claims on callback's steps

\* C11: a failing step of callback ends it and no later step runs: a state
\* mismatch (and every failure before it) is reported with no request made to
\* the OP, a failure of the code exchange is reported with the token request
\* as the only request, a failure of the presence, issuer, nonce or
\* algorithm check is reported without a userinfo request, and a userinfo
\* request is made only for an ID token that passed those four checks.
C11_ShortCircuit ==
  IsCallback =>
    /\ last.outcome \in {"Restart", "AccessDenied", "KeyError:state", "StateMismatch",
                         "NonceMismatchFront", "KeyError:code"}
         => last.calls = <<>>
    /\ last.outcome \in {"TokenRequestFailed", "TokenError", "KeyError:id_token"}
         => last.calls = <<"token">>
    /\ last.outcome \in {"NoIdToken", "IssuerMismatch", "NonceMismatch", "AlgNoneRejected"}
         => "userinfo" \notin Range(last.calls)
    /\ "userinfo" \in Range(last.calls)
         => /\ last.token \in Tokens
            /\ last.token.iss = rp.issuer
            /\ last.token.nonce = last.session.nonce
            /\ rp.allow_sign_alg_none \/ last.token.alg # "none"
            /\ last.calls[Len(last.calls)] = "userinfo"

\* C11 witness: the code was exchanged, the exchanged ID token failed the
\* algorithm check, and userinfo was not requested.
C11_Witness ==
  /\ IsCallback
  /\ last.outcome = "AlgNoneRejected"
  /\ last.calls = <<"token">>
  /\ last.atresp.kind = "ok"

\* C12: when the parsed response is an OP error, callback makes no token or
\* userinfo request and leaves the id_token cache as it was; for
\* "login_required" it answers with a restart, a new authorization request
\* whose freshly generated state and nonce are now the session's, and for any
\* other error it ends in the access-denied error.
C12_OpErrorAtParse ==
  (IsCallback /\ last.response.kind = "error") =>
    /\ last.calls = <<>>
    /\ rp.id_token = last.cache_before
    /\ last.user_id = <<>>
    /\ IF last.response.error = "login_required"
       THEN /\ last.outcome = "Restart"
            /\ last.fresh.state \in States /\ last.fresh.nonce \in Nonces
            /\ session[last.sid] = last.fresh
       ELSE last.outcome = "AccessDenied"

\* C12 witness: a login_required error on a session in flight was answered
\* with a restart under a state different from the old one.
C12_Witness ==
  /\ IsCallback
  /\ last.response.error = "login_required"
  /\ last.outcome = "Restart"
  /\ last.session.state \in States
  /\ session[last.sid].state # last.session.state

\* The last callback got past the code-exchange step: it is an authorization
\* response that passed the state and front nonce checks, and the exchange,
\* when made, did not fail at the token endpoint.
ReachedPresenceStep ==
  /\ ReachedExchangeStep
  /\ last.outcome \notin {"KeyError:code", "TokenRequestFailed", "TokenError"}

\* C13 (as claimed): callback ends in the missing-ID-token failure exactly
\* when neither the authorization response nor the token response carried an
\* ID token, and a token response without an ID token leaves a front-channel
\* ID token in place as the one to check.
C13_IdTokenPresence ==
  ReachedPresenceStep =>
    /\ last.outcome = "NoIdToken"
         <=> (last.response.id_token = NoToken /\ last.atresp.id_token = NoToken)
    /\ (last.response.id_token \in Tokens
          /\ last.atresp.kind = "ok" /\ last.atresp.id_token = NoToken)
         => /\ last.token = last.response.id_token
            /\ rp.id_token[last.response.state] = last.response.id_token

\* ------------------------------------------------------------------ claims on derived redirect URIs

\* The redirect URI the default template yields for an issuer: base_url for
\* "{base}" and the tag of seed || issuer for "{iss}".
ExpectedRedirectUris(issuer) ==
  << Uri(cfg.base_url, <<"/", "#">> \o cfg.seed \o issuer) >>

\* The registry keys that dynamic_client inserted.
DynamicKeys == DOMAIN client \ DOMAIN cfg.CLIENTS

\* C14: every invocation of dynamic_client for an issuer derives the same
\* redirect URIs, the template with base_url and the tag of seed || issuer
\* substituted, and records their paths for that issuer; the paths of two
\* distinct issuers differ, so each issuer's path entry stays its own.
C14_DeterministicRedirects ==
  /\ \A t \in Callers :
       pc[t] = "registering" =>
         \A i \in 1..Len(ExpectedRedirectUris(loc[t].issuer)) :
           Get(path, Tail(ExpectedRedirectUris(loc[t].issuer)[i].path), <<>>)
             = loc[t].issuer
  /\ \A k \in DynamicKeys :
       /\ client[k].redirect_uris = ExpectedRedirectUris(k)
       /\ \A i \in 1..Len(client[k].redirect_uris) :
            Get(path, Tail(client[k].redirect_uris[i].path), <<>>) = k
  /\ \A k1 \in DynamicKeys : \A k2 \in DynamicKeys \ {k1} :
       \A i \in 1..Len(client[k1].redirect_uris) :
         \A j \in 1..Len(client[k2].redirect_uris) :
           client[k1].redirect_uris[i].path # client[k2].redirect_uris[j].path

\* C14 witness: two issuers were provisioned dynamically, the second after a
\* registration of the first, and both path entries are in place.
C14_Witness ==
  /\ DynamicKeys = Issuers
  /\ \A k \in Issuers : Get(path, <<"#">> \o cfg.seed \o k, <<>>) = k

\* ------------------------------------------------------------------ claims on user_id

\* C15: two verified results whose ID tokens come from different issuers and
\* carry the same sub have different user_id strings.
C15_UserIdSeparation ==
  \A r1 \in verified : \A r2 \in verified :
    (r1.iss # r2.iss /\ r1.sub = r2.sub) => r1.user_id # r2.user_id

\* C15 witness: the Clients of two issuers each verified a login of the same
\* sub.
C15_Witness ==
  \E r1 \in verified : \E r2 \in verified :
    r1.iss # r2.iss /\ r1.sub = r2.sub

\* C19 (as claimed): two verified results that differ in issuer or in
\* subject have different user_id strings, whatever characters the issuer
\* and the subject contain.
C19_UserIdInjective ==
  \A r1 \in verified : \A r2 \in verified :
    (r1.iss # r2.iss \/ r1.sub # r2.sub) => r1.user_id # r2.user_id

\* ------------------------------------------------------------------ claims on what callback writes

\* C16 (as claimed): callback only reads the session: after any callback,
\* whatever its outcome, the session holds the state and nonce it held
\* before the call.
C16_SessionReadOnly ==
  IsCallback => session[last.sid] = last.session

\* C16 (amended): callback leaves the session's state and nonce as they were
\* for every outcome but the restart; on a login_required error the session
\* holds the state and nonce generated for the new authorization request.
C16_SessionFrame ==
  IsCallback =>
    IF last.response.kind = "error" /\ last.response.error = "login_required"
    THEN session[last.sid] = last.fresh
    ELSE session[last.sid] = last.session

\* C16 witness: a callback on a session in flight that got as far as the
\* userinfo request and failed left the session as it was.
C16_Witness ==
  /\ IsCallback
  /\ last.outcome = "SubjectMismatch"
  /\ last.session.state \in States
  /\ session[last.sid] = last.session

\* C17 (as claimed): the id_token cache is changed only by callbacks that end
\* in success: a callback with any other outcome leaves the cache as it was,
\* and an entry a callback wrote is an ID token that passed the issuer,
\* nonce, algorithm and subject checks.
C17_CacheOnlyVerified ==
  IsCallback =>
    /\ last.outcome # "Success" => rp.id_token = last.cache_before
    /\ \A s \in States :
         rp.id_token[s] # last.cache_before[s] =>
           /\ rp.id_token[s].iss = rp.issuer
           /\ rp.id_token[s].nonce = last.session.nonce
           /\ rp.allow_sign_alg_none \/ rp.id_token[s].alg # "none"
           /\ last.inforesp.kind = "ok" /\ rp.id_token[s].sub = last.inforesp.sub

\* ------------------------------------------------------------------ claims on routing

\* No construction and no lookup is in progress.
Quiescent ==
  /\ built = "ready"
  /\ \A t \in Callers : pc[t] \in {"idle", "done"}

\* C18 (as claimed): once the registry is constructed and no lookup is in
\* progress, every issuer the path index holds as a value is a key of the
\* registry, also after lookups that failed at a network step.
C18_PathsRouteToClients ==
  Quiescent => \A p \in DOMAIN path : path[p] \in DOMAIN client

\* ------------------------------------------------------------------ claims on the authorization request

\* C20 (as claimed): after create_authn_request the state and nonce of the
\* request arguments are the session's state and nonce, whatever keyword
\* arguments the caller passed, so that an OP echoing them passes the state
\* and nonce checks on that session.
C20_RequestMatchesSession ==
  last.op = "create_authn_request" =>
    /\ last.request_args["state"] = session[last.sid].state
    /\ last.request_args["nonce"] = session[last.sid].nonce
    /\ StateMatches(session[last.sid],
                    [state |-> last.request_args["state"]])
    /\ NonceMatches([nonce |-> last.request_args["nonce"]], session[last.sid])

====
